---------------------------- MODULE Spec2Model ----------------------------
(***************************************************************************)
(* A model of cthulhu_game.py: the Game state machine of "Don't Mess with  *)
(* Cthulhu" (roster, deck/discard/hands, flashlight, claims, phases, turns *)
(* and the win evaluation), and of Player.reveal_card as a pure function.  *)
(*                                                                         *)
(* The program state is held in one record per variable of class Game and  *)
(* one record per Player (status, game_data).  Every public method is one  *)
(* action; the methods it calls are operators on a record `g` of the whole *)
(* game, so that a method that raises after it has written some fields     *)
(* leaves exactly the fields it wrote.                                     *)
(***************************************************************************)
EXTENDS Integers, Sequences, FiniteSets, TLC

(***************************************************************************)
(* Bounds of the model.                                                    *)
(***************************************************************************)
\* Player objects that exist; they are numbered in the order of first join.
NumPlayers == 3
\* Calls of new_turn in one game: successful claims of a Claims phase and
\* investigations.
MaxTurns == 6
\* Successful add_player and remove_player calls: in Spec, where the roster
\* changes before the game starts, and in SpecRoster, where it also changes
\* during the game.
MaxJoins == 3
MaxRosterCalls == 4
\* Outcomes of random.shuffle that are explored (see Shuffled).
NumShuffles == 2
\* Calls of new_turn in one game of SpecCalls.
MaxCallTurns == 4
\* Largest roster start_game is called on in SpecDeal.
MaxDealPlayers == 10
\* Calls of new_turn in one game of SpecLive.
MaxLiveTurns == 4
\* Longest hand given to reveal_card in SpecReveal.
MaxHandLen == 5

(***************************************************************************)
(* Program constants.                                                      *)
(***************************************************************************)
\* Cards per active player: create_deck fills the deck to n_players * 5.
HandSize == 5
\* check_winner: Cultists win when n_players * 4 cards are revealed.
ExhaustFactor == 4
\* create_deck adds a second Cthulhu card above this many players.
TwoCthulhuAbove == 8
\* GameSettings.min_players and max_players.
min_players == 3
max_players == 10

Players == 1..NumPlayers

\* The value of an attribute that holds None or was never assigned.
None == "None"

\* Inputs of set_claim: (blank, elder, cthulhu).
ClaimInputs == {<<4, 1, 0>>}

\* pos=None, and the inputs of investigate for pos: None, the first two
\* indices and one index past a full hand.
NoPos == -1
PosInputs == {NoPos, 0, 1, HandSize}

VARIABLES
    players,        \* Game.players: the roster, in seating order
    status,         \* Player.status of every player object
    game_data,      \* Player.game_data of every player object
    game_status,    \* Game.game_status
    round_counter,  \* Game.round_counter
    phase,          \* Game.phase
    turn,           \* Game.turn
    deck,           \* Game.deck
    discard,        \* Game.discard
    winner,         \* Game.winner
    result,         \* how the last call ended: "ok", "error" (it raised), "hang"
    turns,          \* number of new_turn calls so far
    roster_calls,   \* number of successful add_player and remove_player calls
    hand, revealed, \* the hand and the outcome of the reveal_card calls of SpecReveal
    last            \* the last call, where calls are recorded: method and player

gvars == <<players, status, game_data, game_status, round_counter, phase,
           turn, deck, discard, winner>>
rvars == <<hand, revealed>>
vars == <<players, status, game_data, game_status, round_counter, phase,
          turn, deck, discard, winner, result, turns, roster_calls, hand,
          revealed, last>>

(***************************************************************************)
(* Sequences.                                                              *)
(***************************************************************************)
Range(s) == {s[i] : i \in 1..Len(s)}

IndexOf(s, x) == CHOOSE i \in 1..Len(s) : s[i] = x /\ \A j \in 1..(i - 1) : s[j] # x

\* list.remove(x): removes the first occurrence.
RemoveFirst(s, x) ==
    LET i == IndexOf(s, x)
    IN  SubSeq(s, 1, i - 1) \o SubSeq(s, i + 1, Len(s))

Reverse(s) == [i \in 1..Len(s) |-> s[Len(s) + 1 - i]]

RotateLeft(s, k) ==
    IF Len(s) = 0 THEN s
    ELSE [i \in 1..Len(s) |-> s[((i - 1 + k) % Len(s)) + 1]]

Repeat(x, n) == [i \in 1..n |-> x]

RECURSIVE Concat(_)
Concat(ss) == IF ss = <<>> THEN <<>> ELSE Head(ss) \o Concat(Tail(ss))

\* random.shuffle(s): one of NumShuffles permutations of s, chosen by k.
Shuffled(s, k) == Reverse(RotateLeft(s, k))
ShuffleInputs == 0..(NumShuffles - 1)
\* The outcomes explored for the shuffle of the roles, which no rule reads.
RoleShuffleInputs == {0}

(***************************************************************************)
(* Card, PlayerGameData.                                                   *)
(***************************************************************************)
Card(ctype) == [title |-> ctype, is_flipped |-> FALSE]

flip_up(card) == [card EXCEPT !.is_flipped = TRUE]

\* Player.game_data is None, or a PlayerGameData: exists says which.  claim
\* is <<>> for None and <<list>> for a stored list of cards.
NoGameData ==
    [exists |-> FALSE, role |-> None, cards |-> <<>>, can_claim |-> FALSE,
     claim |-> <<>>, has_flashlight |-> FALSE]

PlayerGameData(role) ==
    [exists |-> TRUE, role |-> role, cards |-> <<>>, can_claim |-> FALSE,
     claim |-> <<>>, has_flashlight |-> FALSE]

\* Player.start_playing: fresh game data, status Playing, can_claim True.
start_playing(g, p, role) ==
    [g EXCEPT !.game_data[p] = [PlayerGameData(role) EXCEPT !.can_claim = TRUE],
              !.status[p] = "Playing"]

(***************************************************************************)
(* The game as one record, and the helpers of class Game.                  *)
(***************************************************************************)
Cur ==
    [players |-> players, status |-> status, game_data |-> game_data,
     game_status |-> game_status, round_counter |-> round_counter,
     phase |-> phase, turn |-> turn, deck |-> deck, discard |-> discard,
     winner |-> winner, exc |-> "ok", turned |-> 0]

\* A raise statement (or an exception of the interpreter) in a method: the
\* fields written so far stay, the rest of the call is skipped.
Raise(g) == [g EXCEPT !.exc = "error"]

\* A loop that never ends.
Hang(g) == [g EXCEPT !.exc = "hang"]

\* The call returns (or raises, or hangs) and leaves the game as g.
Commit(g) ==
    /\ result # "hang"
    /\ players' = g.players
    /\ status' = g.status
    /\ game_data' = g.game_data
    /\ game_status' = g.game_status
    /\ round_counter' = g.round_counter
    /\ phase' = g.phase
    /\ turn' = g.turn
    /\ deck' = g.deck
    /\ discard' = g.discard
    /\ winner' = g.winner
    /\ result' = g.exc
    /\ turns' = turns + g.turned
    /\ roster_calls' = roster_calls + (IF g.players # players THEN 1 ELSE 0)

get_active_players(g) == SelectSeq(g.players, LAMBDA p : g.status[p] = "Playing")

count_active_players(g) == Len(get_active_players(g))

get_spectators(g) == SelectSeq(g.players, LAMBDA p : g.status[p] = "Spectating")

(***************************************************************************)
(* Roster.                                                                 *)
(***************************************************************************)
\* Game.add_player(player, is_playing).
AddPlayer(g, p, is_playing) ==
    IF g.game_status # "Unstarted" /\ is_playing THEN Raise(g)
    ELSE IF p \in Range(g.players) /\ g.status[p] \in {"Playing", "Spectating"}
         THEN Raise(g)
    ELSE [g EXCEPT !.status[p] = IF is_playing THEN "Playing" ELSE "Spectating",
                   !.players = Append(@, p)]

\* Game.remove_player(player).
RemovePlayer(g, p) ==
    IF p \in Range(g.players)
    THEN [g EXCEPT !.players = RemoveFirst(@, p)]
    ELSE Raise(g)

\* Game.get_next_player(player), for a player of the roster with an active
\* player in the roster: the next active player after it, wrapping.
get_next_player(g, p) ==
    LET n == Len(g.players)
        ind == IndexOf(g.players, p)
        step == CHOOSE d \in 1..n :
                    /\ g.status[g.players[((ind - 1 + d) % n) + 1]] = "Playing"
                    /\ \A e \in 1..(d - 1) :
                          g.status[g.players[((ind - 1 + e) % n) + 1]] # "Playing"
    IN  g.players[((ind - 1 + step) % n) + 1]

(***************************************************************************)
(* Roles, deck and deal.                                                   *)
(***************************************************************************)
\* roles/role_info.txt: the numbers of investigators and cultists for a
\* number of players; there is a line for min_players..max_players players.
HasRoleInfo(n) == n \in min_players..max_players

RoleInfo(n) ==
    LET c == IF n <= 6 THEN 2 ELSE 3
    IN  [n_investigators |-> n + 1 - c, n_cultists |-> c]

\* Game.make_roles, after the lookup succeeded.
make_roles(g, k) ==
    LET info == RoleInfo(count_active_players(g))
    IN  Shuffled(Repeat("Investigator", info.n_investigators)
                 \o Repeat("Cultist", info.n_cultists), k)

\* Game.create_deck with `n_players >= 8` for `n_players > 8`.
create_deck_from_eight(g) ==
    LET n_players == count_active_players(g)
        cthulhu == (IF n_players >= TwoCthulhuAbove THEN <<Card("Cthulhu")>> ELSE <<>>)
                   \o <<Card("Cthulhu")>>
        signs == cthulhu \o Repeat(Card("Elder Sign"), n_players)
        n_blank == (n_players * HandSize) - Len(signs)
    IN  [g EXCEPT !.deck = signs \o (IF n_blank > 0 THEN Repeat(Card("Blank"), n_blank)
                                     ELSE <<>>),
                  !.discard = <<>>]

\* Game.create_deck.
create_deck(g) ==
    LET n_players == count_active_players(g)
        cthulhu == (IF n_players > TwoCthulhuAbove THEN <<Card("Cthulhu")>> ELSE <<>>)
                   \o <<Card("Cthulhu")>>
        signs == cthulhu \o Repeat(Card("Elder Sign"), n_players)
        n_blank == (n_players * HandSize) - Len(signs)
    IN  [g EXCEPT !.deck = signs \o (IF n_blank > 0 THEN Repeat(Card("Blank"), n_blank)
                                     ELSE <<>>),
                  !.discard = <<>>]

\* Player.give_card.
give_card(g, p, card) == [g EXCEPT !.game_data[p].cards = Append(@, card)]

\* The loops of Game.deal_cards: the while test is made when i = 1, the for
\* loop gives the deck's last card to the i-th active player.
RECURSIVE DealLoop(_, _, _)
DealLoop(g, act, i) ==
    IF i = 1 /\ g.deck = <<>> THEN g
    ELSE IF act = <<>> THEN Hang(g)
    ELSE IF g.deck = <<>> THEN Raise(g)
    ELSE DealLoop(give_card([g EXCEPT !.deck = SubSeq(@, 1, Len(@) - 1)],
                            act[i], g.deck[Len(g.deck)]),
                  act, IF i = Len(act) THEN 1 ELSE i + 1)

\* Game.deal_cards, with k the outcome of the shuffle.
deal_cards(g, k) ==
    DealLoop([g EXCEPT !.deck = Shuffled(@, k)], get_active_players(g), 1)

RECURSIVE StartAll(_, _, _, _)
StartAll(g, act, roles, i) ==
    IF i > Len(act) THEN g
    ELSE StartAll(start_playing(g, act[i], roles[i]), act, roles, i + 1)

\* Player.toggle_flashlight.
toggle_flashlight(g, p) ==
    [g EXCEPT !.game_data[p].has_flashlight = ~ @]

\* Game.start_game without the game_status test.
StartGameAgain(g, kr, kd, f) ==
    IF ~ HasRoleInfo(count_active_players(g)) THEN Raise(g)
    ELSE LET act == get_active_players(g)
             g1 == StartAll(g, act, make_roles(g, kr), 1)
             g2 == deal_cards(create_deck(g1), kd)
         IN  IF g2.exc # "ok" THEN g2
             ELSE [toggle_flashlight(g2, act[f]) EXCEPT
                       !.game_status = "Ongoing", !.round_counter = 1,
                       !.phase = "Claims", !.turn = 1]

\* Game.start_game, with kr and kd the outcomes of the two shuffles and f the
\* outcome of random.choice (an index into the active players).
StartGame(g, kr, kd, f) ==
    IF g.game_status # "Unstarted" THEN Raise(g)
    ELSE IF ~ HasRoleInfo(count_active_players(g)) THEN Raise(g)
    ELSE LET act == get_active_players(g)
             g1 == StartAll(g, act, make_roles(g, kr), 1)
             g2 == deal_cards(create_deck(g1), kd)
         IN  IF g2.exc # "ok" THEN g2
             ELSE [toggle_flashlight(g2, act[f]) EXCEPT
                       !.game_status = "Ongoing", !.round_counter = 1,
                       !.phase = "Claims", !.turn = 1]

(***************************************************************************)
(* Reveal, win evaluation, turns, phases and rounds.                       *)
(***************************************************************************)
\* Player.reveal_card on the list of cards of a hand.  `if pos:` is false
\* for None and for 0; cards[pos] raises for an index past the hand.
RevealCard(cards, pos) ==
    IF pos # NoPos /\ pos # 0
    THEN IF pos >= Len(cards) THEN [cards |-> cards, exc |-> "error"]
         ELSE IF ~ cards[pos + 1].is_flipped THEN [cards |-> cards, exc |-> "error"]
         ELSE [cards |-> [cards EXCEPT ![pos + 1] = flip_up(@)], exc |-> "ok"]
    ELSE IF \E i \in 1..Len(cards) : ~ cards[i].is_flipped
         THEN LET i == CHOOSE i \in 1..Len(cards) :
                           /\ ~ cards[i].is_flipped
                           /\ \A j \in 1..(i - 1) : cards[j].is_flipped
              IN  [cards |-> [cards EXCEPT ![i] = flip_up(@)], exc |-> "ok"]
         ELSE [cards |-> cards, exc |-> "error"]

\* target.reveal_card(pos=pos) in the game; a player without game data
\* raises on the attribute access.
reveal_card(g, p, pos) ==
    IF ~ g.game_data[p].exists THEN Raise(g)
    ELSE LET r == RevealCard(g.game_data[p].cards, pos)
         IN  [g EXCEPT !.game_data[p].cards = r.cards, !.exc = r.exc]

\* The cards check_winner looks at: the active hands, then the discard.
RevealedChain(g) ==
    LET act == get_active_players(g)
    IN  Concat([i \in 1..Len(act) |-> g.game_data[act[i]].cards]) \o g.discard

\* Game.check_winner with a Cthulhu branch that reads the winner: it sets
\* 'Cultist' when no winner is stored and clears a stored winner.
check_winner_reads_winner(g) ==
    LET up == SelectSeq(RevealedChain(g), LAMBDA c : c.is_flipped)
        cards_revealed == Len(up)
        signs_found == Len(SelectSeq(up, LAMBDA c : c.title = "Elder Sign"))
        in_loop == IF \E i \in 1..Len(up) : up[i].title = "Cthulhu"
                   THEN (IF g.winner = None THEN "Cultist" ELSE None)
                   ELSE g.winner
    IN  [g EXCEPT !.winner =
            IF signs_found >= count_active_players(g) THEN "Investigator"
            ELSE IF cards_revealed >= count_active_players(g) * ExhaustFactor
                 THEN "Cultist"
            ELSE in_loop]

\* Game.check_winner with `signs_found > n` for `signs_found >= n`.
check_winner_more_signs(g) ==
    LET up == SelectSeq(RevealedChain(g), LAMBDA c : c.is_flipped)
        cards_revealed == Len(up)
        signs_found == Len(SelectSeq(up, LAMBDA c : c.title = "Elder Sign"))
        in_loop == IF \E i \in 1..Len(up) : up[i].title = "Cthulhu"
                   THEN "Cultist" ELSE g.winner
    IN  [g EXCEPT !.winner =
            IF signs_found > count_active_players(g) THEN "Investigator"
            ELSE IF cards_revealed >= count_active_players(g) * ExhaustFactor
                 THEN "Cultist"
            ELSE in_loop]

\* Game.check_winner.
check_winner(g) ==
    LET up == SelectSeq(RevealedChain(g), LAMBDA c : c.is_flipped)
        cards_revealed == Len(up)
        signs_found == Len(SelectSeq(up, LAMBDA c : c.title = "Elder Sign"))
        in_loop == IF \E i \in 1..Len(up) : up[i].title = "Cthulhu"
                   THEN "Cultist" ELSE g.winner
    IN  [g EXCEPT !.winner =
            IF signs_found >= count_active_players(g) THEN "Investigator"
            ELSE IF cards_revealed >= count_active_players(g) * ExhaustFactor
                 THEN "Cultist"
            ELSE in_loop]

\* Game.new_phase.
new_phase(g) ==
    [g EXCEPT !.phase = "Investigation", !.turn = 1,
              !.game_data = [p \in Players |->
                    IF p \in Range(get_active_players(g))
                    THEN [@[p] EXCEPT !.can_claim = TRUE] ELSE @[p]]]

\* Game.new_round without `p.game_data.cards = []`.
new_round_keeps_hands(g, k) ==
    LET act == get_active_players(g)
        hands == Concat([i \in 1..Len(act) |-> g.game_data[act[i]].cards])
        g1 == [g EXCEPT
                 !.phase = "Claims", !.turn = 1,
                 !.discard = @ \o SelectSeq(hands, LAMBDA c : c.is_flipped),
                 !.deck = @ \o SelectSeq(hands, LAMBDA c : ~ c.is_flipped),
                 !.game_data = [p \in Players |->
                    IF p \in Range(act)
                    THEN [@[p] EXCEPT !.can_claim = g.game_data[p].has_flashlight]
                    ELSE @[p]]]
    IN  deal_cards(g1, k)

\* Game.new_round, with k the outcome of the shuffle.
new_round(g, k) ==
    LET act == get_active_players(g)
        hands == Concat([i \in 1..Len(act) |-> g.game_data[act[i]].cards])
        g1 == [g EXCEPT
                 !.phase = "Claims", !.turn = 1,
                 !.discard = @ \o SelectSeq(hands, LAMBDA c : c.is_flipped),
                 !.deck = @ \o SelectSeq(hands, LAMBDA c : ~ c.is_flipped),
                 !.game_data = [p \in Players |->
                    IF p \in Range(act)
                    THEN [@[p] EXCEPT !.cards = <<>>,
                                      !.can_claim = g.game_data[p].has_flashlight]
                    ELSE @[p]]]
    IN  deal_cards(g1, k)

\* Game.new_turn.
new_turn(g, k) ==
    LET g1 == check_winner(g)
        g2 == [g1 EXCEPT !.turn = @ + 1, !.turned = @ + 1]
    IN  IF g2.turn > count_active_players(g2)
        THEN IF g2.phase = "Claims" THEN new_phase(g2) ELSE new_round(g2, k)
        ELSE g2

(***************************************************************************)
(* Claims and investigations.                                              *)
(***************************************************************************)
\* The list of cards Game.set_claim builds.
MakeClaim(blank, elder, cthulhu) ==
    Repeat(Card("Blank"), blank) \o Repeat(Card("Elder Sign"), elder)
        \o Repeat(Card("Cthulhu"), cthulhu)

\* Player.set_claim without the can_claim test.
player_set_claim_unchecked(g, p, claim) ==
    IF ~ g.game_data[p].exists THEN Raise(g)
    ELSE [g EXCEPT !.game_data[p].claim = <<claim>>,
                   !.game_data[p].can_claim = FALSE]

\* Player.set_claim.
player_set_claim(g, p, claim) ==
    IF ~ g.game_data[p].exists THEN Raise(g)
    ELSE IF ~ g.game_data[p].can_claim THEN Raise(g)
    ELSE [g EXCEPT !.game_data[p].claim = <<claim>>,
                   !.game_data[p].can_claim = FALSE]

\* Game.set_claim.
SetClaim(g, p, blank, elder, cthulhu) ==
    LET g1 == player_set_claim(g, p, MakeClaim(blank, elder, cthulhu))
    IN  IF g1.exc # "ok" THEN g1
        ELSE IF g1.phase # "Claims" THEN g1
        ELSE IF p \notin Range(g1.players) THEN Raise(g1)
        ELSE IF get_active_players(g1) = <<>> THEN Hang(g1)
        ELSE new_turn([g1 EXCEPT
                          !.game_data[get_next_player(g1, p)].can_claim = TRUE], 0)

\* Game.investigate without `user.game_data.has_flashlight = False`.
InvestigateKeepsFlashlight(g, user, target, pos, k) ==
    IF ~ g.game_data[user].exists THEN Raise(g)
    ELSE IF ~ g.game_data[user].has_flashlight THEN Raise(g)
    ELSE LET g2 == reveal_card(g, target, pos)
         IN  IF g2.exc # "ok" THEN g2
             ELSE new_turn([g2 EXCEPT !.game_data[target].has_flashlight = TRUE], k)

\* Game.investigate without the flashlight test.
InvestigateUnchecked(g, user, target, pos, k) ==
    IF ~ g.game_data[user].exists THEN Raise(g)
    ELSE LET g1 == [g EXCEPT !.game_data[user].has_flashlight = FALSE]
             g2 == reveal_card(g1, target, pos)
         IN  IF g2.exc # "ok" THEN g2
             ELSE new_turn([g2 EXCEPT !.game_data[target].has_flashlight = TRUE], k)

\* Game.investigate, with k the outcome of the shuffle of a new round.
Investigate(g, user, target, pos, k) ==
    IF ~ g.game_data[user].exists THEN Raise(g)
    ELSE IF ~ g.game_data[user].has_flashlight THEN Raise(g)
    ELSE LET g1 == [g EXCEPT !.game_data[user].has_flashlight = FALSE]
             g2 == reveal_card(g1, target, pos)
         IN  IF g2.exc # "ok" THEN g2
             ELSE new_turn([g2 EXCEPT !.game_data[target].has_flashlight = TRUE], k)

\* Game.end_game.
EndGame(g) == [g EXCEPT !.game_status = "Ended"]

(***************************************************************************)
(* The calls a client makes.                                               *)
(***************************************************************************)
\* Player objects are numbered in the order of their first join.
MayJoin(p) == status[p] # "Idle" \/ \A q \in Players : q < p => status[q] # "Idle"

add_player(p, is_playing) ==
    /\ MayJoin(p)
    /\ Commit(AddPlayer(Cur, p, is_playing))
    /\ UNCHANGED rvars

remove_player(p) ==
    /\ Commit(RemovePlayer(Cur, p))
    /\ UNCHANGED rvars

start_game(kr, kd, f) ==
    /\ f <= count_active_players(Cur) \/ f = 1
    /\ Commit(StartGame(Cur, kr, kd, f))
    /\ UNCHANGED rvars

set_claim(p, claim) ==
    /\ Commit(SetClaim(Cur, p, claim[1], claim[2], claim[3]))
    /\ UNCHANGED rvars

\* k is read only by a call that ends a round, target and pos only by a
\* call that passed the flashlight test: the calls that do not read an input
\* are explored for one value of it.
investigate(user, target, pos, k) ==
    /\ k # 0 => phase = "Investigation" /\ turn >= count_active_players(Cur)
    /\ (target # 1 \/ pos # NoPos) => game_data[user].has_flashlight
    /\ Commit(Investigate(Cur, user, target, pos, k))
    /\ UNCHANGED rvars

end_game ==
    /\ Commit(EndGame(Cur))
    /\ UNCHANGED rvars

\* No call was made yet, or the calls are not recorded.
NoCall == [op |-> "none", p |-> 0]

\* No reveal_card call of SpecReveal was made.
NoReveal == [pos |-> NoPos, exc |-> "none", before |-> <<>>]

Init ==
    /\ players = <<>>
    /\ status = [p \in Players |-> "Idle"]
    /\ game_data = [p \in Players |-> NoGameData]
    /\ game_status = "Unstarted"
    /\ round_counter = 0
    /\ phase = None
    /\ turn = 0
    /\ deck = <<>>
    /\ discard = <<>>
    /\ winner = None
    /\ result = "ok"
    /\ turns = 0
    /\ roster_calls = 0
    /\ hand = <<>>
    /\ revealed = NoReveal
    /\ last = NoCall

\* The bounds of a specification: t calls of new_turn, r roster changes.
Within(t, r) == turns' <= t /\ roster_calls' <= r

\* Spec and SpecRoster do not record the calls.
InSpec == Within(MaxTurns, MaxJoins) /\ UNCHANGED last

Next ==
    \/ \E p \in Players, is_playing \in BOOLEAN : add_player(p, is_playing) /\ InSpec
    \/ \E p \in Players : remove_player(p) /\ InSpec
    \/ \E kr \in RoleShuffleInputs, kd \in ShuffleInputs, f \in Players :
           start_game(kr, kd, f) /\ InSpec
    \/ \E p \in Players, claim \in ClaimInputs : set_claim(p, claim) /\ InSpec
    \/ \E user \in Players, target \in Players, pos \in PosInputs,
          k \in ShuffleInputs : investigate(user, target, pos, k) /\ InSpec
    \/ end_game /\ InSpec

Spec == Init /\ [][Next]_vars

\* The same calls with the roster changing during the game too, and the
\* investigations drawn from RosterPosInputs and one shuffle.
RosterPosInputs == {NoPos}

InSpecRoster == Within(MaxTurns, MaxRosterCalls) /\ UNCHANGED last

NextRoster ==
    \/ \E p \in Players, is_playing \in BOOLEAN :
           add_player(p, is_playing) /\ InSpecRoster
    \/ \E p \in Players : remove_player(p) /\ InSpecRoster
    \/ \E f \in Players : start_game(0, 0, f) /\ InSpecRoster
    \/ \E p \in Players, claim \in ClaimInputs : set_claim(p, claim) /\ InSpecRoster
    \/ \E user \in Players, target \in Players, pos \in RosterPosInputs :
           investigate(user, target, pos, 0) /\ InSpecRoster
    \/ end_game /\ InSpecRoster

SpecRoster == Init /\ [][NextRoster]_vars

(***************************************************************************)
(* The calls of Spec with each call recorded in `last`: the method and the *)
(* player passed to it (0 for start_game and end_game).                    *)
(***************************************************************************)
Called(op, p) == last' = [op |-> op, p |-> p]

InSpecCalls == Within(MaxCallTurns, MaxJoins)

NextCalls ==
    \/ \E p \in Players, is_playing \in BOOLEAN :
           add_player(p, is_playing) /\ InSpecCalls /\ Called("add_player", p)
    \/ \E p \in Players :
           remove_player(p) /\ InSpecCalls /\ Called("remove_player", p)
    \/ \E kr \in RoleShuffleInputs, kd \in ShuffleInputs, f \in Players :
           start_game(kr, kd, f) /\ InSpecCalls /\ Called("start_game", 0)
    \/ \E p \in Players, claim \in ClaimInputs :
           set_claim(p, claim) /\ InSpecCalls /\ Called("set_claim", p)
    \/ \E user \in Players, target \in Players, pos \in PosInputs,
          k \in ShuffleInputs :
           investigate(user, target, pos, k) /\ InSpecCalls /\ Called("investigate", user)
    \/ end_game /\ InSpecCalls /\ Called("end_game", 0)

SpecCalls == Init /\ [][NextCalls]_vars


(***************************************************************************)
(* start_game alone, on a roster of 0..MaxDealPlayers players who all      *)
(* joined as participants.                                                 *)
(***************************************************************************)
DealPlayers == 1..MaxDealPlayers

InitDeal ==
    \E n \in 0..MaxDealPlayers :
        /\ players = [i \in 1..n |-> i]
        /\ status = [p \in DealPlayers |-> IF p <= n THEN "Playing" ELSE "Idle"]
        /\ game_data = [p \in DealPlayers |-> NoGameData]
        /\ game_status = "Unstarted"
        /\ round_counter = 0
        /\ phase = None
        /\ turn = 0
        /\ deck = <<>>
        /\ discard = <<>>
        /\ winner = None
        /\ result = "ok"
        /\ turns = 0
        /\ roster_calls = 0
        /\ hand = <<>>
        /\ revealed = NoReveal
        /\ last = NoCall

NextDeal ==
    \E kr \in ShuffleInputs, kd \in ShuffleInputs, f \in DealPlayers :
        start_game(kr, kd, f) /\ Called("start_game", 0)

SpecDeal == InitDeal /\ [][NextDeal]_vars

(***************************************************************************)
(* Player.reveal_card alone: a hand of up to MaxHandLen cards, each face-up *)
(* or face-down, and calls with pos None, an index of the hand, or MaxHandLen. *)
(***************************************************************************)
CardValues == {[title |-> t, is_flipped |-> b] : t \in {"Blank", "Elder Sign"},
                                                 b \in BOOLEAN}

Hands == UNION {[1..n -> CardValues] : n \in 0..MaxHandLen}

RevealPosInputs == {NoPos} \cup (0..MaxHandLen)

InitReveal ==
    /\ players = <<>>
    /\ status = [p \in Players |-> "Idle"]
    /\ game_data = [p \in Players |-> NoGameData]
    /\ game_status = "Unstarted"
    /\ round_counter = 0
    /\ phase = None
    /\ turn = 0
    /\ deck = <<>>
    /\ discard = <<>>
    /\ winner = None
    /\ result = "ok"
    /\ turns = 0
    /\ roster_calls = 0
    /\ hand \in Hands
    /\ revealed = NoReveal
    /\ last = NoCall

\* player.reveal_card(pos) on a player whose hand is `hand`.
reveal(pos) ==
    /\ LET r == RevealCard(hand, pos)
       IN  /\ hand' = r.cards
           /\ revealed' = [pos |-> pos, exc |-> r.exc, before |-> hand]
    /\ UNCHANGED <<gvars, result, turns, roster_calls, last>>

NextReveal == \E pos \in RevealPosInputs : reveal(pos)

SpecReveal == InitReveal /\ [][NextReveal]_vars

(***************************************************************************)
(* Properties.                                                             *)
(***************************************************************************)
ActivePlayers == Range(get_active_players(Cur))

RECURSIVE SumLen(_, _)
SumLen(f, S) ==
    IF S = {} THEN 0
    ELSE LET x == CHOOSE x \in S : TRUE IN Len(f[x].cards) + SumLen(f, S \ {x})

\* Cards in the deck, the discard and the active players' hands.
TotalCards == Len(deck) + Len(discard) + SumLen(game_data, ActivePlayers)

FlashlightHolders == {p \in ActivePlayers : game_data[p].has_flashlight}

SomeCardFaceUp ==
    \E p \in ActivePlayers : \E i \in 1..Len(game_data[p].cards) :
        game_data[p].cards[i].is_flipped

\* C1: while the game is Ongoing, the deck, the discard and the active
\* players' hands hold 5 cards per active player.
C1_CardCount ==
    game_status = "Ongoing" => TotalCards = HandSize * count_active_players(Cur)

\* C2: in the Investigation phase of an Ongoing game exactly one active
\* player holds the flashlight.
C2_OneFlashlight ==
    (game_status = "Ongoing" /\ phase = "Investigation")
        => Cardinality(FlashlightHolders) = 1

\* C3: while the game is Ongoing at most one active player holds the
\* flashlight.
C3_AtMostOneFlashlight ==
    game_status = "Ongoing" => Cardinality(FlashlightHolders) <= 1

\* An Ongoing game whose roster changed after the start, in which an
\* investigation flipped a card and one active player holds the flashlight.
C3_Witness ==
    /\ game_status = "Ongoing"
    /\ roster_calls > MaxJoins
    /\ SomeCardFaceUp
    /\ Cardinality(FlashlightHolders) = 1

\* C4: once winner is set to a team it keeps that value.
C4_WinnerStable == [][winner # None => winner' = winner]_vars

CthulhuFaceUp ==
    \E i \in 1..Len(RevealedChain(Cur)) :
        RevealedChain(Cur)[i].is_flipped /\ RevealedChain(Cur)[i].title = "Cthulhu"

\* C5: a win evaluation (a call of new_turn) made while a Cthulhu card is
\* face-up in an active hand or in the discard leaves winner = Cultist.
C5_CthulhuWins ==
    [][(turns' > turns /\ CthulhuFaceUp') => winner' = "Cultist"]_vars

\* C6: a call that raises leaves the game as it was.
C6_FailureAtomic == [][result' = "error" => UNCHANGED gvars]_vars

\* C7: once winner is set, no call flips a card, stores a claim, moves the
\* flashlight or changes the hands, the turn or the phase.
C7_NoPlayAfterWin ==
    [][winner # None => UNCHANGED <<game_data, turn, phase, deck, discard>>]_vars

\* A step that deals: start_game's deal, or the redeal of new_round.
DealStep ==
    \/ game_status = "Unstarted" /\ game_status' = "Ongoing"
    \/ phase = "Investigation" /\ phase' = "Claims"

\* C8: every deal ends without running out of cards in a pass, with the
\* deck empty and the same number of cards in every active hand.
C8_EvenDeal ==
    [][DealStep =>
         /\ result' = "ok"
         /\ deck' = <<>>
         /\ \A p, q \in ActivePlayers' :
                Len(game_data'[p].cards) = Len(game_data'[q].cards)]_vars

\* What C9 says of reveal_card(pos) on the cards `before`.
ExpectedReveal(before, pos) ==
    LET down == {i \in 1..Len(before) : ~ before[i].is_flipped}
        first == CHOOSE i \in down : \A j \in down : i <= j
        at == IF pos = NoPos THEN (IF down = {} THEN 0 ELSE first)
              ELSE (IF (pos + 1) \in down THEN pos + 1 ELSE 0)
    IN  IF at = 0 THEN [cards |-> before, exc |-> "error"]
        ELSE [cards |-> [before EXCEPT ![at] = [@ EXCEPT !.is_flipped = TRUE]],
              exc |-> "ok"]

\* C9: a reveal with a valid index flips the card there when it is
\* face-down and fails when it is face-up; with no position it flips the
\* first face-down card and fails when there is none; a failed reveal
\* changes no card.
C9_RevealSpec ==
    (revealed.exc # "none" /\ revealed.pos < Len(revealed.before))
        => [cards |-> hand, exc |-> revealed.exc]
               = ExpectedReveal(revealed.before, revealed.pos)

AllCards == deck \o RevealedChain(Cur)

ActiveHands ==
    LET act == get_active_players(Cur)
    IN  Concat([i \in 1..Len(act) |-> game_data[act[i]].cards])

\* The number of cards of a kind, and of face-up cards, in a list.
KindCount(cards, title) == Len(SelectSeq(cards, LAMBDA c : c.title = title))

FaceUpCount(cards) == Len(SelectSeq(cards, LAMBDA c : c.is_flipped))

\* C10: a new_round keeps the number of cards of each kind among the deck,
\* the discard and the active hands; afterwards the deck is empty, the
\* discard has grown by face-up cards only and the hands hold face-down
\* cards only.
C10_RecollectPreserves ==
    [][(phase = "Investigation" /\ phase' = "Claims") =>
         \A before \in {AllCards}, after \in {AllCards'}, hands \in {ActiveHands'} :
             /\ Len(after) = Len(before)
             /\ KindCount(after, "Cthulhu") = KindCount(before, "Cthulhu")
             /\ KindCount(after, "Elder Sign") = KindCount(before, "Elder Sign")
             /\ KindCount(after, "Blank") = KindCount(before, "Blank")
             /\ deck' = <<>>
             /\ SubSeq(discard', 1, Len(discard)) = discard
             /\ FaceUpCount(discard') = Len(discard')
             /\ FaceUpCount(hands) = 0
             /\ FaceUpCount(after) >= FaceUpCount(before)]_vars

\* A new round was dealt to the end: cards went to the discard and every
\* active player holds cards again.
C10_Witness ==
    /\ phase = "Claims"
    /\ result = "ok"
    /\ discard # <<>>
    /\ \A p \in ActivePlayers : game_data[p].cards # <<>>


\* C11: start_game on an Unstarted game of 3 to 10 active players succeeds
\* and leaves 5n cards (1 Cthulhu, 2 above 8 players, n Elder Signs, the
\* rest Blanks), 5 face-down cards in every active hand and an empty deck
\* and discard.
C11_StartDeal ==
    [][\A n \in {count_active_players(Cur)} :
        (last'.op = "start_game" /\ game_status = "Unstarted" /\ n \in 3..10) =>
            \A cards \in {AllCards'} :
                /\ result' = "ok"
                /\ game_status' = "Ongoing"
                /\ Len(cards) = HandSize * n
                /\ KindCount(cards, "Cthulhu") = (IF n > 8 THEN 2 ELSE 1)
                /\ KindCount(cards, "Elder Sign") = n
                /\ KindCount(cards, "Blank") = HandSize * n - n - (IF n > 8 THEN 2 ELSE 1)
                /\ deck' = <<>>
                /\ discard' = <<>>
                /\ ActivePlayers' = ActivePlayers
                /\ \A p \in ActivePlayers :
                       /\ Len(game_data'[p].cards) = HandSize
                       /\ FaceUpCount(game_data'[p].cards) = 0]_vars

\* start_game dealt to 9 players: the deck had two Cthulhu cards.
C11_Witness ==
    /\ last.op = "start_game"
    /\ game_status = "Ongoing"
    /\ count_active_players(Cur) = 9
    /\ KindCount(AllCards, "Cthulhu") = 2

\* C12: a set_claim call by a player whose can_claim is False raises and
\* leaves the stored claims, the can_claim flags, the turn and the phase as
\* they were.
C12_ClaimRejected ==
    [][(/\ last'.op = "set_claim"
        /\ game_data[last'.p].exists
        /\ ~ game_data[last'.p].can_claim)
          => (result' = "error" /\ UNCHANGED <<game_data, turn, phase>>)]_vars

\* In the Investigation phase a player who had claimed called set_claim
\* again, and the call raised.
C12_Witness ==
    /\ last.op = "set_claim"
    /\ result = "error"
    /\ phase = "Investigation"
    /\ game_data[last.p].exists
    /\ ~ game_data[last.p].can_claim
    /\ game_data[last.p].claim # <<>>

\* C13: an investigate call by a player who does not hold the flashlight
\* raises and changes nothing, for every target and position.
C13_NoFlashlightRejected ==
    [][(last'.op = "investigate" /\ ~ game_data[last'.p].has_flashlight)
          => /\ result' = "error"
             /\ UNCHANGED gvars
             /\ turns' = turns
             /\ \A target \in Players, pos \in PosInputs, k \in ShuffleInputs :
                    Investigate(Cur, last'.p, target, pos, k) = Raise(Cur)]_vars

\* An investigate call by an active player raised while another player
\* holds the flashlight.
C13_Witness ==
    /\ last.op = "investigate"
    /\ result = "error"
    /\ game_status = "Ongoing"
    /\ last.p \in ActivePlayers
    /\ ~ game_data[last.p].has_flashlight
    /\ \E q \in ActivePlayers : game_data[q].has_flashlight

\* C14: a start_game call that succeeds was made on an Unstarted game and
\* leaves it Ongoing in the Claims phase, round 1, turn 1, with one active
\* flashlight holder; on a game that is not Unstarted it raises and changes
\* nothing.
C14_StartOnce ==
    [][last'.op = "start_game" =>
         IF game_status = "Unstarted"
         THEN result' = "ok" =>
                /\ game_status' = "Ongoing"
                /\ phase' = "Claims"
                /\ round_counter' = 1
                /\ turn' = 1
                /\ Cardinality(FlashlightHolders') = 1
         ELSE result' = "error" /\ UNCHANGED gvars]_vars

\* start_game raised on a game that had been started and then ended.
C14_Witness ==
    /\ last.op = "start_game"
    /\ result = "error"
    /\ game_status = "Ended"
    /\ round_counter = 1
    /\ Cardinality(FlashlightHolders) = 1

\* C15: once the game is Ongoing, no call changes the active players or
\* their seating order.
C15_RosterFrozen ==
    [][game_status = "Ongoing"
          => get_active_players(Cur)' = get_active_players(Cur)]_vars

\* C16: game_status changes only from Unstarted to Ongoing, and from Ongoing
\* to Ended with the winner set.
C16_StatusOrder ==
    [][game_status' # game_status =>
         \/ game_status = "Unstarted" /\ game_status' = "Ongoing"
         \/ game_status = "Ongoing" /\ game_status' = "Ended" /\ winner # None]_vars

\* The number of face-up Elder Signs in the active hands and the discard.
SignsFaceUp ==
    Len(SelectSeq(RevealedChain(Cur),
                  LAMBDA c : c.is_flipped /\ c.title = "Elder Sign"))

\* The number of face-up cards of a kind in a list.
FaceUpKind(cards, title) ==
    Len(SelectSeq(cards, LAMBDA c : c.is_flipped /\ c.title = title))

\* C17: a win evaluation (a call of new_turn) made while the face-up Elder
\* Signs are at least as many as the active players and no Cthulhu card is
\* face-up leaves winner = Investigator.
C17_SignsWin ==
    [][turns' > turns =>
         \A chain \in {RevealedChain(Cur)'} :
            (/\ FaceUpKind(chain, "Elder Sign") >= count_active_players(Cur)'
             /\ FaceUpKind(chain, "Cthulhu") = 0)
               => winner' = "Investigator"]_vars

\* The investigators won by Elder Signs with no Cthulhu card face-up.
C17_Witness ==
    /\ game_status = "Ongoing"
    /\ turns > 0
    /\ count_active_players(Cur) = NumPlayers
    /\ SignsFaceUp >= count_active_players(Cur)
    /\ ~ CthulhuFaceUp
    /\ winner = "Investigator"

\* The values Game.winner takes.
WinnerValues == {None, "Cultist", "Investigator"}

\* C18: from every reachable state and every stored winner, check_winner run
\* twice in a row leaves the winner its first run left.
C18_CheckWinnerIdempotent ==
    \A w \in WinnerValues :
        \A g1 \in {check_winner([Cur EXCEPT !.winner = w])} :
            /\ check_winner(g1).winner = g1.winner
            /\ check_winner(g1) = g1

\* A win evaluation stored Cultist for a face-up Cthulhu card, and one more
\* run of check_winner keeps it.
C18_Witness ==
    /\ game_status = "Ongoing"
    /\ turns > 0
    /\ CthulhuFaceUp
    /\ winner = "Cultist"
    /\ check_winner(Cur).winner = "Cultist"

\* The active players who are allowed to claim.
Claimants == {p \in ActivePlayers : game_data[p].can_claim}

\* C19: in the Claims phase only a successful set_claim advances the turn,
\* and the n-th one changes the phase to Investigation (turn 1, every active
\* player allowed to claim); in the Investigation phase a successful
\* investigate advances the turn, and the n-th one changes the phase to
\* Claims (turn 1, the flashlight holder alone allowed to claim); a
\* set_claim made during Investigation changes neither; 1 <= turn <= n.
C19_PhaseChanges ==
    [][\A n \in {count_active_players(Cur)} :
        /\ (game_status = "Ongoing" /\ phase = "Claims" /\ turn' # turn)
              => /\ last'.op = "set_claim"
                 /\ IF turn = n
                    THEN /\ phase' = "Investigation"
                         /\ turn' = 1
                         /\ Claimants' = ActivePlayers'
                    ELSE phase' = "Claims" /\ turn' = turn + 1
        /\ (phase = "Claims" /\ phase' = "Investigation")
              => last'.op = "set_claim" /\ turn = n
        /\ (game_status = "Ongoing" /\ phase = "Investigation" /\ turn' # turn)
              => /\ last'.op = "investigate"
                 /\ IF turn = n
                    THEN /\ phase' = "Claims"
                         /\ turn' = 1
                         /\ Claimants' = FlashlightHolders'
                    ELSE phase' = "Investigation" /\ turn' = turn + 1
        /\ (phase = "Investigation" /\ phase' = "Claims")
              => last'.op = "investigate" /\ turn = n
        /\ (phase = "Investigation" /\ last'.op = "set_claim")
              => turn' = turn /\ phase' = phase
        /\ game_status' = "Ongoing" => turn' \in 1..n]_vars

\* C20: in the Claims phase at most one active player is allowed to claim,
\* and when the phase changes to Investigation every active player has
\* stored a claim.
C20_OneClaimant ==
    [][/\ (game_status' = "Ongoing" /\ phase' = "Claims")
             => Cardinality(Claimants') <= 1
       /\ (phase = "Claims" /\ phase' = "Investigation")
             => \A p \in ActivePlayers' : game_data'[p].claim # <<>>]_vars

\* C21: round_counter is 1 after start_game, grows by one at every new_round
\* and changes at no other step.
C21_RoundCounter ==
    [][/\ (game_status = "Unstarted" /\ game_status' = "Ongoing")
             => round_counter' = 1
       /\ (phase = "Investigation" /\ phase' = "Claims")
             => round_counter' = round_counter + 1
       /\ (game_status = "Ongoing" /\ ~ (phase = "Investigation" /\ phase' = "Claims"))
             => round_counter' = round_counter]_vars

\* The hands of all players who have game data, in the roster or not.
EveryHand ==
    Concat([p \in 1..NumPlayers |-> game_data[p].cards])

\* After a call on an Ongoing game the deck holds face-down cards only and
\* the discard face-up cards only, and when a Claims phase starts every card
\* of the active hands is face-down.
FacesInPlace ==
    game_status' = "Ongoing" =>
        /\ FaceUpCount(deck') = 0
        /\ FaceUpCount(discard') = Len(discard')
        /\ (phase # "Claims" /\ phase' = "Claims")
              => FaceUpCount(ActiveHands') = 0

\* C23: after every call on an Ongoing game the deck holds face-down cards
\* only and the discard face-up cards only; when a Claims phase starts every
\* card of the active hands is face-down; and every face-up card is among
\* the cards the win evaluation counts (the active hands and the discard).
C23_FaceUpPlaces ==
    [][/\ FacesInPlace
       /\ game_status' = "Ongoing" =>
             FaceUpCount(RevealedChain(Cur)') = FaceUpCount(EveryHand' \o discard')]_vars

(***************************************************************************)
(* A game played by set_claim and investigate calls alone, where a call    *)
(* that advances the turn is made whenever one is possible.                *)
(***************************************************************************)
InSpecLive == Within(MaxLiveTurns, MaxJoins) /\ UNCHANGED last

NextLive ==
    \/ \E p \in Players : add_player(p, TRUE) /\ InSpecLive
    \/ \E kr \in RoleShuffleInputs, kd \in ShuffleInputs, f \in Players :
           start_game(kr, kd, f) /\ InSpecLive
    \/ \E p \in Players, claim \in ClaimInputs : set_claim(p, claim) /\ InSpecLive
    \/ \E user \in Players, target \in Players, pos \in PosInputs,
          k \in ShuffleInputs : investigate(user, target, pos, k) /\ InSpecLive

\* Some set_claim or investigate call would reach new_turn.
CanAdvance ==
    \/ \E p \in Players, claim \in ClaimInputs :
           SetClaim(Cur, p, claim[1], claim[2], claim[3]).turned > 0
    \/ \E user \in Players, target \in Players, pos \in PosInputs :
           Investigate(Cur, user, target, pos, 0).turned > 0

\* Weak fairness of the calls that advance the turn, WF_vars(A) for A the
\* set_claim and investigate steps with turns' > turns, with ENABLED A
\* written out: such a call is possible and within the explored turns.
FairPlay ==
    \/ []<>(~ (result # "hang" /\ CanAdvance /\ turns < MaxLiveTurns))
    \/ []<><<turns' > turns>>_vars

SpecLive == Init /\ [][NextLive]_vars /\ FairPlay

\* C22: an Ongoing game without a winner always has a set_claim or
\* investigate call that advances the turn.
C22_NeverStuck ==
    (game_status = "Ongoing" /\ winner = None) => CanAdvance

\* With such calls made whenever one is possible, a started game gets a
\* winner (within the MaxLiveTurns turns that are explored).
EventuallyWinner ==
    (game_status = "Ongoing" /\ winner = None)
        ~> (winner # None \/ turns >= MaxLiveTurns)
=============================================================================
